---- MODULE Spec2Model ----
(***************************************************************************)
(* Model of the schema upgrader of chaind's PostgreSQL chain database      *)
(* (services/chaindb/postgresql/upgrader.go): Service.Upgrade, the         *)
(* registry of upgrades, the seven upgrade functions, version/setVersion   *)
(* and columnExists, over a database with transactional DDL.               *)
(*                                                                         *)
(* The database is a committed copy (db) and, while a transaction is open, *)
(* the transaction's working copy (txdb).  Upgrade is a sequential         *)
(* process; each action is one statement of it (a statement sent to the    *)
(* database, or a call that can fail), so that a crash or a failure at any *)
(* statement is a state of the model.                                      *)
(***************************************************************************)
EXTENDS Integers, Sequences, FiniteSets, TLC

\* ------------------------------------------------------------------ bounds

\* Highest schema version any build of the program knows (currentVersion of
\* the repository's build is 1; later builds append entries to the registry).
MaxVersion == 4
\* Rows of t_validators in the database before the upgrade.
MaxValidators == 2
\* Rows of t_proposer_slashings in the database before the upgrade.
MaxSlashings == 2

\* ------------------------------------------------------------ SQL values

\* A column value: NULL, or a number.
Null == <<>>
Val(n) == <<n>>

\* ------------------------------------------- schema metadata (JSON bytes)

\* type schemaMetadata struct { Version uint64 `json:"version"` }
\* json.Marshal(&schemaMetadata{Version: v}): the document {"version":v},
\* as its sequence of tokens.
Marshal(v) == << "{", "version", ":", v, "}" >>

\* Metadata documents the model stores under the key "schema":
\* no row at all (s.Metadata returns no data), a document setVersion wrote,
\* the empty object, and bytes that are not JSON.
NoData == <<>>
EmptyObject == << "{", "}" >>
Malformed == << "{", "version" >>

\* json.Unmarshal(data, &metadata): ok is FALSE for bytes that are not a
\* JSON object; a missing "version" member leaves Version at its zero value.
Unmarshal(data) ==
  IF Len(data) = 5 /\ data[1] = "{" /\ data[2] = "version" /\ data[3] = ":" /\ data[5] = "}"
    THEN [ok |-> TRUE, Version |-> data[4]]
  ELSE IF data = EmptyObject
    THEN [ok |-> TRUE, Version |-> 0]
  ELSE [ok |-> FALSE, Version |-> 0]

\* Service.version on the bytes s.Metadata(ctx, "schema") returned.
versionMutZero(data) ==
  IF Len(data) = 0 THEN [err |-> FALSE, version |-> 0]
  ELSE IF ~Unmarshal(data).ok THEN [err |-> TRUE, version |-> 0]
  ELSE [err |-> FALSE, version |-> 0]

\* version that drops the error of json.Unmarshal.
versionIgnoringUnmarshalError(data) ==
  IF Len(data) = 0 THEN [err |-> FALSE, version |-> 0]
  ELSE [err |-> FALSE, version |-> Unmarshal(data).Version]

\* The result's err is TRUE for "failed to unmarshal metadata JSON"; a failure of
\* s.Metadata itself is a fault of the Upgrade action that calls it.
version(data) ==
  IF Len(data) = 0 THEN [err |-> FALSE, version |-> 0]
  ELSE IF ~Unmarshal(data).ok THEN [err |-> TRUE, version |-> 0]
  ELSE [err |-> FALSE, version |-> Unmarshal(data).Version]

\* ------------------------------------------------------------ the database

\* The tables the upgrade functions name.  t_blocks, t_validators,
\* t_proposer_slashings and t_attestations are part of the version 0 schema.
BaseTables == {"t_blocks", "t_validators", "t_proposer_slashings", "t_attestations"}

EpochColumns ==
  {"f_activation_eligibility_epoch", "f_activation_epoch", "f_exit_epoch", "f_withdrawable_epoch"}

\* The rows t_validators holds before the upgrade: a validator that is not yet
\* eligible (every epoch is the sentinel -1) and an active validator (exit and
\* withdrawable epochs are the sentinel).
PendingValidator == [c \in EpochColumns |-> Val(-1)]
ActiveValidator ==
  [c \in EpochColumns |->
     IF c = "f_activation_eligibility_epoch" THEN Val(3)
     ELSE IF c = "f_activation_epoch" THEN Val(4)
     ELSE Val(-1)]
ValidatorRows == {PendingValidator, ActiveValidator}

\* Proposer slashing k of the version 0 schema: its two signed headers (each
\* header stands for the five fields Slot, ProposerIndex, ParentRoot, StateRoot
\* and BodyRoot) and no block root column.
HeaderColumns == {"f_header_1", "f_header_2"}
SlashingRow(k) == [c \in HeaderColumns |-> IF c = "f_header_1" THEN Val(2 * k - 1) ELSE Val(2 * k)]

\* BeaconBlockHeader.HashTreeRoot of the header a column value stands for.
HashTreeRoot(header) == Val(<< "root", header[1] >>)

\* All sequences over S of length at most n.
SeqUpTo(S, n) == UNION {[1..k -> S] : k \in 0..n}

\* The version 0 database: the schema metadata given, the base tables, NOT NULL
\* epoch columns; f_aggregation_indices is there when an earlier release added it by
\* hand (upgrader.go:323).
Version0DB(metadata, validators, nSlashings, manualColumn) ==
  [metadata |-> metadata,
   tables   |-> BaseTables,
   indexes  |-> {},
   columns  |-> [t \in BaseTables |->
                   IF t = "t_validators" THEN EpochColumns
                   ELSE IF t = "t_proposer_slashings" THEN HeaderColumns
                   ELSE IF t = "t_attestations" /\ manualColumn THEN {"f_aggregation_indices"}
                   ELSE {}],
   notnull  |-> {<<"t_validators", c>> : c \in EpochColumns}
                  \cup {<<"t_proposer_slashings", c>> : c \in HeaderColumns},
   rows     |-> [t \in BaseTables |->
                   IF t = "t_validators" THEN validators
                   ELSE IF t = "t_proposer_slashings" THEN [k \in 1..nSlashings |-> SlashingRow(k)]
                   ELSE <<>>]]

HasColumn(d, t, c) == t \in d.tables /\ c \in d.columns[t]

\* ------------------------------------------------------------- statements

\* The statements the upgrade functions send with tx.Exec.
DropNotNull(t, c)   == [op |-> "DROP NOT NULL", table |-> t, column |-> c]
SetNotNull(t, c)    == [op |-> "SET NOT NULL", table |-> t, column |-> c]
UpdateSentinel(t, c) == [op |-> "UPDATE NULL WHERE -1", table |-> t, column |-> c]
AddColumn(t, c)     == [op |-> "ADD COLUMN", table |-> t, column |-> c]
CreateTable(t, refs, ifNotExists) ==
  [op |-> "CREATE TABLE", table |-> t, references |-> refs, ifNotExists |-> ifNotExists]
CreateIndex(i, t, ifNotExists) ==
  [op |-> "CREATE INDEX", index |-> i, table |-> t, ifNotExists |-> ifNotExists]

\* Whether PostgreSQL accepts statement st on database d.
Accepts(d, st) ==
  CASE st.op = "DROP NOT NULL" -> HasColumn(d, st.table, st.column)
    [] st.op = "SET NOT NULL" ->
         /\ HasColumn(d, st.table, st.column)
         /\ \A k \in DOMAIN d.rows[st.table] : d.rows[st.table][k][st.column] # Null
    [] st.op = "UPDATE NULL WHERE -1" ->
         /\ HasColumn(d, st.table, st.column)
         /\ (<<st.table, st.column>> \in d.notnull
               => \A k \in DOMAIN d.rows[st.table] : d.rows[st.table][k][st.column] # Val(-1))
    [] st.op = "ADD COLUMN" -> st.table \in d.tables /\ st.column \notin d.columns[st.table]
    [] st.op = "CREATE TABLE" ->
         /\ st.references \subseteq d.tables
         /\ (st.ifNotExists \/ st.table \notin d.tables)
    [] st.op = "CREATE INDEX" ->
         /\ st.table \in d.tables
         /\ (st.ifNotExists \/ st.index \notin d.indexes)

\* f with the value v at x, x added to its domain when it is not there.
Put(f, x, v) == [y \in DOMAIN f \cup {x} |-> IF y = x THEN v ELSE f[y]]

\* The database after the accepted statement st.
Effect(d, st) ==
  CASE st.op = "DROP NOT NULL" -> [d EXCEPT !.notnull = @ \ {<<st.table, st.column>>}]
    [] st.op = "SET NOT NULL" -> [d EXCEPT !.notnull = @ \cup {<<st.table, st.column>>}]
    [] st.op = "UPDATE NULL WHERE -1" ->
         [d EXCEPT !.rows[st.table] =
            [k \in DOMAIN @ |->
               IF @[k][st.column] = Val(-1) THEN [@[k] EXCEPT ![st.column] = Null] ELSE @[k]]]
    [] st.op = "ADD COLUMN" ->
         [d EXCEPT !.columns[st.table] = @ \cup {st.column},
                   !.rows[st.table] = [k \in DOMAIN @ |-> Put(@[k], st.column, Null)]]
    [] st.op = "CREATE TABLE" ->
         IF st.table \in d.tables THEN d
         ELSE [d EXCEPT !.tables = @ \cup {st.table},
                        !.columns = Put(@, st.table, {}),
                        !.rows = Put(@, st.table, <<>>)]
    [] st.op = "CREATE INDEX" -> [d EXCEPT !.indexes = @ \cup {st.index}]

\* ------------------------------------------------------ upgrade functions

\* validatorsEpochNull whose last UPDATE names f_exit_epoch again.
validatorsEpochNullRepeated ==
  << DropNotNull("t_validators", "f_activation_eligibility_epoch"),
     DropNotNull("t_validators", "f_activation_epoch"),
     DropNotNull("t_validators", "f_exit_epoch"),
     DropNotNull("t_validators", "f_withdrawable_epoch"),
     UpdateSentinel("t_validators", "f_activation_eligibility_epoch"),
     UpdateSentinel("t_validators", "f_activation_epoch"),
     UpdateSentinel("t_validators", "f_exit_epoch"),
     UpdateSentinel("t_validators", "f_exit_epoch") >>

\* Each upgrade function is the sequence of its statements and calls, in the
\* order the code issues them; each can fail and end the function with an error.
validatorsEpochNull ==
  << DropNotNull("t_validators", "f_activation_eligibility_epoch"),
     DropNotNull("t_validators", "f_activation_epoch"),
     DropNotNull("t_validators", "f_exit_epoch"),
     DropNotNull("t_validators", "f_withdrawable_epoch"),
     UpdateSentinel("t_validators", "f_activation_eligibility_epoch"),
     UpdateSentinel("t_validators", "f_activation_epoch"),
     UpdateSentinel("t_validators", "f_exit_epoch"),
     UpdateSentinel("t_validators", "f_withdrawable_epoch") >>

createDeposits ==
  << CreateTable("t_deposits", {"t_blocks"}, FALSE),
     CreateIndex("i_deposits_1", "t_deposits", FALSE) >>

createChainSpec == << CreateTable("t_chain_spec", {}, FALSE) >>

createGenesis == << CreateTable("t_genesis", {}, FALSE) >>

\* The loop over the slashings read is one entry: the action that executes it
\* stays on it until every row read has been written back.
addProposerSlashingBlockRoots ==
  << AddColumn("t_proposer_slashings", "f_block_1_root"),
     AddColumn("t_proposer_slashings", "f_block_2_root"),
     [op |-> "ProposerSlashingsForSlotRange"],
     [op |-> "SetProposerSlashing"],
     SetNotNull("t_proposer_slashings", "f_block_1_root"),
     SetNotNull("t_proposer_slashings", "f_block_2_root") >>

createETH1Deposits ==
  << CreateTable("t_eth1_deposits", {}, TRUE),
     CreateIndex("i_eth1_deposits_1", "t_eth1_deposits", TRUE),
     CreateIndex("i_eth1_deposits_2", "t_eth1_deposits", TRUE),
     CreateIndex("i_eth1_deposits_3", "t_eth1_deposits", TRUE),
     CreateIndex("i_eth1_deposits_4", "t_eth1_deposits", TRUE),
     CreateIndex("i_eth1_deposits_5", "t_eth1_deposits", TRUE) >>

addAttestationAggregationIndices ==
  << [op |-> "columnExists", table |-> "t_attestations", column |-> "f_aggregation_indices"],
     AddColumn("t_attestations", "f_aggregation_indices") >>

\* The upgrade function of a name.
Body(name) ==
  CASE name = "validatorsEpochNull" -> validatorsEpochNull
    [] name = "createDeposits" -> createDeposits
    [] name = "createChainSpec" -> createChainSpec
    [] name = "createGenesis" -> createGenesis
    [] name = "addProposerSlashingBlockRoots" -> addProposerSlashingBlockRoots
    [] name = "createETH1Deposits" -> createETH1Deposits
    [] name = "addAttestationAggregationIndices" -> addAttestationAggregationIndices

\* ---------------------------------------------------------------- registry

\* var upgrades = map[uint64]*upgrade{...}.  Entry 1 is the whole registry of
\* the repository's build.  Upgrade is written for any registry and any currentVersion,
\* so the model also runs it as later builds would ship it: builds append
\* entries for higher versions and raise currentVersion.  The appended entries
\* reuse the repository's two re-runnable upgrade functions, carry no refetch
\* flag, and leave every odd version without an entry.
upgrades ==
  [k \in {1} \cup {n \in 2..MaxVersion : n % 2 = 0} |->
     IF k = 1
       THEN [requiresRefetch |-> TRUE,
             funcs |-> << "validatorsEpochNull", "createDeposits", "createChainSpec",
                          "createGenesis", "addProposerSlashingBlockRoots",
                          "createETH1Deposits", "addAttestationAggregationIndices" >>]
       ELSE [requiresRefetch |-> FALSE,
             funcs |-> << "createETH1Deposits", "addAttestationAggregationIndices" >>]]

\* -------------------------------------------------------------------- state

VARIABLES
  currentVersion,  \* var currentVersion: the schema version the running build expects
  db,              \* the committed database, as any other session reads it
  txOpen,          \* whether the transaction of a BeginTx is open
  txdb,            \* the open transaction's view of the database
  pc,              \* where the process is: "start" (Upgrade not yet called),
                   \* "upgradeFunc", "setVersion", "CommitTx" (inside Upgrade),
                   \* "returned" (Upgrade returned ret), "crashed"
  frame,           \* Upgrade's local variables and the position in the running
                   \* upgrade function
  ret,             \* what the last Upgrade returned: (requiresRefetch, err)
  hist             \* what the current or last Upgrade call did (for the properties)

vars == << currentVersion, db, txOpen, txdb, pc, frame, ret, hist >>

Running == {"upgradeFunc", "setVersion", "CommitTx"}

IdleFrame ==
  [version |-> 0, i |-> 0, fn |-> 0, stmt |-> 0, requiresRefetch |-> FALSE,
   proposerSlashings |-> <<>>, row |-> 0]

\* -------------------------------------------------------------- transactions

\* The store is the committed database and the transaction: [db, open, txdb].
Store == [db |-> db, open |-> txOpen, txdb |-> txdb]

\* s.BeginTx: the transaction starts from the committed database.
BeginTx(S) == [S EXCEPT !.open = TRUE, !.txdb = S.db]

\* The cancel function BeginTx returns: roll the transaction back.
cancel(S) == [S EXCEPT !.open = FALSE, !.txdb = S.db]

\* s.CommitTx succeeding: everything the transaction did becomes visible at once.
CommitTx(S) == [S EXCEPT !.db = S.txdb, !.open = FALSE]

\* A statement sent outside the transaction: committed as it executes.
PoolExec(S, st) == [S EXCEPT !.db = Effect(S.txdb, st), !.txdb = Effect(S.txdb, st)]

\* tx.Exec(ctx, st) with tx := s.tx(ctx): the statement acts on the transaction.
TxExec(S, st) == [S EXCEPT !.txdb = Effect(S.txdb, st)]

\* The metadata written outside the transaction.
SetMetadataPool(S, data) == [S EXCEPT !.db.metadata = data, !.txdb.metadata = data]

\* s.SetMetadata(ctx, "schema", data) with the transaction in ctx.
SetMetadata(S, data) == [S EXCEPT !.txdb.metadata = data]

\* setVersion that marshals the metadata and never stores it.
setVersionNoWrite(S, v) == [err |-> IF S.open THEN "nil" ELSE "ErrNoTransaction", store |-> S]

\* setVersion that stores the metadata outside the transaction.
setVersionPool(S, v) ==
  IF ~S.open THEN [err |-> "ErrNoTransaction", store |-> S]
  ELSE [err |-> "nil", store |-> SetMetadataPool(S, Marshal(v))]

\* Service.setVersion(ctx, version) when SetMetadata succeeds.
setVersion(S, v) ==
  IF ~S.open THEN [err |-> "ErrNoTransaction", store |-> S]
  ELSE [err |-> "nil", store |-> SetMetadata(S, Marshal(v))]

NoTransactionNever(hasTx) == FALSE

\* tx := s.tx(ctx); if tx == nil { return ErrNoTransaction }: the test at the
\* head of every upgrade function.  hasTx: ctx carries a transaction.
NoTransaction(hasTx) == ~hasTx

\* An upgrade function called with a ctx carrying no transaction: the error it
\* returns.  Past the test the first tx.Exec or tx.Query is a call on a nil
\* pgx.Tx.
upgradeFuncWithoutTx(name) ==
  IF NoTransaction(FALSE) THEN "ErrNoTransaction" ELSE "panic: nil pgx.Tx"

columnExistsOwnTx(S, hasTx) == [view |-> S.db, began |-> 1]

\* columnExists' choice of transaction: the one in ctx, or, with none, one it
\* begins itself, which sees the committed database.  view: the database the
\* query reads; began: the transactions columnExists began.
columnExistsTx(S, hasTx) ==
  IF hasTx THEN [view |-> S.txdb, began |-> 0] ELSE [view |-> S.db, began |-> 1]

\* defer cancel() of the transaction columnExists began itself.
columnExistsReturn(S) == cancel(S)

\* ------------------------------------------------------------------ Upgrade

IsCurrentGreater(v, cur) == v > cur

\* if version == currentVersion
IsCurrent(v, cur) == v = cur

FirstVersionSkip(v) == v + 2

\* for i := version; ...: the first version the loop looks up.
FirstVersion(v) == v

AggregateLast(requiresRefetch, flag) == flag

\* requiresRefetch = requiresRefetch || upgrade.requiresRefetch
Aggregate(requiresRefetch, flag) == requiresRefetch \/ flag

upgradeFuncReversed(upgrade, n) == upgrade.funcs[Len(upgrade.funcs) + 1 - n]

\* for i, upgradeFunc := range upgrade.funcs: the n-th function run.
upgradeFunc(upgrade, n) == upgrade.funcs[n]

NextVersionNone(i, cur) == IF i > cur THEN i ELSE cur + 1

\* The loop over i skipping the versions with no entry: the first version in
\* i..cur the registry has an entry for, a version above cur when there is none.
NextVersion(i, cur) ==
  IF \E k \in i..cur : k \in DOMAIN upgrades
    THEN CHOOSE k \in i..cur : k \in DOMAIN upgrades /\ \A m \in i..(k - 1) : m \notin DOMAIN upgrades
    ELSE IF i > cur THEN i ELSE cur + 1

RangeProposerSlashingsShort(k, proposerSlashings) == k + 1 < Len(proposerSlashings)

\* for _, proposerSlashing := range proposerSlashings: after the k-th element
\* the loop has another one to process.
RangeProposerSlashings(k, proposerSlashings) == k < Len(proposerSlashings)

FailStepNoCancel(S) == S

\* cancel() before return false, errors.Wrap(err, "failed to upgrade")
FailStep(S) == cancel(S)

\* cancel() before the return of a failed setVersion
FailSetVersion(S) == cancel(S)

\* cancel() before the return of a failed CommitTx
FailCommit(S) == cancel(S)

ReturnFailedKeepingFlag(requiresRefetch) ==
  [requiresRefetch |-> requiresRefetch, err |-> "failed to upgrade"]

\* return false, errors.Wrap(err, "failed to upgrade"): the flag aggregated so
\* far, requiresRefetch, is not what is returned.
ReturnFailed(requiresRefetch) == [requiresRefetch |-> FALSE, err |-> "failed to upgrade"]

ReturnCommitIgnoringError(failed, requiresRefetch) ==
  [requiresRefetch |-> requiresRefetch, err |-> "nil"]

\* if err := s.CommitTx(ctx); err != nil { cancel(); return false, ... }
\* return requiresRefetch, nil
ReturnCommit(failed, requiresRefetch) ==
  IF failed THEN [requiresRefetch |-> FALSE, err |-> "failed to commit upgrade transaction"]
  ELSE [requiresRefetch |-> requiresRefetch, err |-> "nil"]

\* The position after upgrade function fn of version f.i returned nil: the next
\* function, or, after the last one, the flag aggregated and the next version.
AfterFunc(f, cur) ==
  IF f.fn < Len(upgrades[f.i].funcs)
    THEN [pc |-> "upgradeFunc", applied |-> {}, finished |-> 1,
          frame |-> [f EXCEPT !.fn = @ + 1, !.stmt = 1, !.proposerSlashings = <<>>, !.row = 0]]
    ELSE LET k == NextVersion(f.i + 1, cur)
         IN [pc |-> IF k > cur THEN "setVersion" ELSE "upgradeFunc", applied |-> {f.i}, finished |-> 1,
             frame |-> [f EXCEPT !.i = k, !.fn = 1, !.stmt = 1, !.proposerSlashings = <<>>,
                                 !.row = 0,
                                 !.requiresRefetch =
                                   Aggregate(@, upgrades[f.i].requiresRefetch)]]

\* The position after the current statement and the n - 1 entries after it.
AfterStatement(f, cur, n) ==
  IF f.stmt + n <= Len(Body(upgradeFunc(upgrades[f.i], f.fn)))
    THEN [pc |-> "upgradeFunc", applied |-> {}, finished |-> 0,
          frame |-> [f EXCEPT !.stmt = @ + n]]
    ELSE AfterFunc(f, cur)

\* The statement or call Upgrade is at.
Current == Body(upgradeFunc(upgrades[frame.i], frame.fn))[frame.stmt]

\* hist once the action executing the current entry has run: the function is
\* logged as called when its first entry executes.
Called(h) ==
  IF frame.stmt = 1
    THEN [h EXCEPT !.executed = Append(@, <<frame.i, frame.fn>>),
                   !.names = Append(@, upgradeFunc(upgrades[frame.i], frame.fn))]
    ELSE h

\* The assignments of a step of the loop that succeeded and left the store S,
\* the history so far being h.
ContinueWith(S, next, h) ==
  /\ db' = S.db
  /\ txOpen' = S.open
  /\ txdb' = S.txdb
  /\ pc' = next.pc
  /\ frame' = next.frame
  /\ ret' = ret
  /\ hist' = [Called(h) EXCEPT
                !.applied = @ \cup next.applied,
                !.finished = @ + next.finished]
  /\ UNCHANGED currentVersion

Continue(S, next) == ContinueWith(S, next, hist)

\* The assignments of an upgrade function returning an error, the history so
\* far being h.
StepFailedWith(h) ==
  LET S == FailStep(Store)
  IN /\ db' = S.db
     /\ txOpen' = S.open
     /\ txdb' = S.txdb
     /\ pc' = "returned"
     /\ frame' = IdleFrame
     /\ ret' = ReturnFailed(frame.requiresRefetch)
     /\ hist' = [Called(h) EXCEPT !.failed = TRUE]
     /\ UNCHANGED currentVersion

StepFailed == StepFailedWith(hist)

\* The assignments of Upgrade returning r before it has a transaction.
ReturnEarly(r, h) ==
  /\ pc' = "returned"
  /\ ret' = r
  /\ hist' = h
  /\ frame' = IdleFrame
  /\ UNCHANGED << currentVersion, db, txOpen, txdb >>

\* The record of a function called outside Upgrade: none yet.
NoCall == [name |-> "none", err |-> "nil", began |-> 0, found |-> FALSE]

\* hist before any call on database d.
EmptyHist(d) ==
  [pre |-> d, version |-> 0, executed |-> <<>>, names |-> <<>>, finished |-> 0,
   applied |-> {}, began |-> 0, metadataWrites |-> 0, setVersionCalls |-> 0,
   failed |-> FALSE, read |-> FALSE, commitFailed |-> FALSE, metadataFault |-> FALSE,
   beginFault |-> FALSE, again |-> FALSE, afterFailure |-> FALSE, prevVersion |-> 0,
   probe |-> "none", rejected |-> FALSE, direct |-> NoCall]

\* hist at the start of a call.  again: the call before returned nil;
\* afterFailure: the call before failed at an upgrade function, having read
\* prevVersion.
NewHist(v) ==
  LET retry == pc = "returned" /\ hist.failed
  IN [EmptyHist(db) EXCEPT !.version = v,
                           !.again = (pc = "returned" /\ ret.err = "nil"),
                           !.afterFailure = retry,
                           !.prevVersion = IF retry THEN hist.version ELSE 0]

\* Upgrade, from the call to the return before the loop or to the loop's first
\* upgrade function: read the version, compare, begin the transaction.
\* metadataFault: s.Metadata fails; beginFault: s.BeginTx fails.
Upgrade ==
  /\ pc \in {"start", "returned", "crashed"}
  /\ \E metadataFault, beginFault \in BOOLEAN :
       LET v == version(db.metadata)
           h == [NewHist(v.version) EXCEPT !.read = ~(metadataFault \/ v.err),
                                           !.metadataFault = metadataFault,
                                           !.beginFault = beginFault]
       IN IF metadataFault \/ v.err
            THEN /\ ~beginFault
                 /\ ReturnEarly([requiresRefetch |-> FALSE, err |-> "failed to obtain version"], h)
          ELSE IF IsCurrent(v.version, currentVersion)
            THEN /\ ~beginFault
                 /\ ReturnEarly([requiresRefetch |-> FALSE, err |-> "nil"], h)
          ELSE IF beginFault
            THEN ReturnEarly([requiresRefetch |-> FALSE,
                              err |-> "failed to begin upgrade transaction"], h)
          ELSE LET S == BeginTx(Store)
                   k == NextVersion(FirstVersion(v.version), currentVersion)
               IN /\ db' = S.db
                  /\ txOpen' = S.open
                  /\ txdb' = S.txdb
                  /\ pc' = IF k > currentVersion THEN "setVersion" ELSE "upgradeFunc"
                  /\ frame' = [IdleFrame EXCEPT !.version = v.version, !.i = k, !.fn = 1, !.stmt = 1]
                  /\ hist' = [h EXCEPT !.began = 1]
                  /\ UNCHANGED << currentVersion, ret >>

SQLOps ==
  {"DROP NOT NULL", "SET NOT NULL", "UPDATE NULL WHERE -1", "ADD COLUMN", "CREATE TABLE",
   "CREATE INDEX"}

\* One tx.Exec of the running upgrade function.  fault: the statement fails for
\* a reason outside the schema (connection lost, context cancelled); without
\* one, a statement that fails was rejected by the database.
Exec ==
  /\ pc = "upgradeFunc"
  /\ Current.op \in SQLOps
  /\ \E fault \in BOOLEAN :
       IF (frame.stmt = 1 /\ NoTransaction(txOpen)) \/ fault \/ ~Accepts(txdb, Current)
         THEN StepFailedWith([hist EXCEPT !.rejected = ~fault])
         ELSE Continue(TxExec(Store, Current), AfterStatement(frame, currentVersion, 1))

\* s.ProposerSlashingsForSlotRange(ctx, 0, 0x7fffffffffffffff): every row of
\* t_proposer_slashings, read in the transaction.  With no row the loop over
\* the result has nothing to do.
ProposerSlashingsForSlotRange ==
  /\ pc = "upgradeFunc"
  /\ Current.op = "ProposerSlashingsForSlotRange"
  /\ \E fault \in BOOLEAN :
       IF fault
         THEN StepFailed
         ELSE LET read == txdb.rows["t_proposer_slashings"]
                  f == [frame EXCEPT !.proposerSlashings = read, !.row = 0]
              IN Continue(Store, AfterStatement(f, currentVersion, IF read = <<>> THEN 2 ELSE 1))

\* One iteration of the loop over the slashings read: both block roots are
\* computed and the slashing is written back.  fault: HashTreeRoot of either
\* header, or SetProposerSlashing, fails.
SetProposerSlashing ==
  /\ pc = "upgradeFunc"
  /\ Current.op = "SetProposerSlashing"
  /\ \E fault \in BOOLEAN :
       IF fault
         THEN StepFailed
         ELSE LET k == frame.row + 1
                  slashing == frame.proposerSlashings[k]
                  written == [slashing EXCEPT
                                !["f_block_1_root"] = HashTreeRoot(slashing["f_header_1"]),
                                !["f_block_2_root"] = HashTreeRoot(slashing["f_header_2"])]
                  S == [Store EXCEPT !.txdb.rows["t_proposer_slashings"][k] = written]
                  f == [frame EXCEPT !.row = k]
              IN Continue(S, IF RangeProposerSlashings(k, frame.proposerSlashings)
                                THEN [pc |-> "upgradeFunc", applied |-> {}, finished |-> 0,
                                      frame |-> f]
                                ELSE AfterStatement(f, currentVersion, 1))

\* s.columnExists(ctx, table, column) called by addAttestationAggregationIndices,
\* with the transaction in ctx.  fault: tx.Query fails.  scanError: with no row
\* in the result rows.Next() is false and rows.Scan is called all the same; what
\* Scan then returns is the driver's choice (an error, or nil with found false).
columnExists ==
  /\ pc = "upgradeFunc"
  /\ Current.op = "columnExists"
  /\ \E fault, scanError \in BOOLEAN :
       LET t == columnExistsTx(Store, txOpen)
           found == HasColumn(t.view, Current.table, Current.column)
           h == [hist EXCEPT !.began = @ + t.began,
                             !.probe = IF fault THEN "query failed"
                                       ELSE IF found THEN "found"
                                       ELSE IF scanError THEN "scan failed"
                                       ELSE "not found"]
       IN IF NoTransaction(txOpen)
            THEN /\ ~fault /\ ~scanError
                 /\ StepFailed
          ELSE IF fault \/ (~found /\ scanError)
            THEN StepFailedWith(h)
          ELSE IF found
            THEN /\ ~scanError
                 /\ ContinueWith(Store, AfterFunc(frame, currentVersion), h)
          ELSE ContinueWith(Store, AfterStatement(frame, currentVersion, 1), h)

\* s.setVersion(ctx, currentVersion) after the loop.  fault: SetMetadata fails.
SetVersion ==
  /\ pc = "setVersion"
  /\ \E fault \in BOOLEAN :
       LET r == setVersion(Store, currentVersion)
       IN IF fault \/ r.err # "nil"
            THEN LET S == FailSetVersion(Store)
                 IN /\ db' = S.db
                    /\ txOpen' = S.open
                    /\ txdb' = S.txdb
                    /\ pc' = "returned"
                    /\ frame' = IdleFrame
                    /\ ret' = [requiresRefetch |-> FALSE,
                               err |-> "failed to set latest schema version"]
                    /\ hist' = [hist EXCEPT !.setVersionCalls = @ + 1]
                    /\ UNCHANGED currentVersion
            ELSE /\ db' = r.store.db
                 /\ txOpen' = r.store.open
                 /\ txdb' = r.store.txdb
                 /\ pc' = "CommitTx"
                 /\ hist' = [hist EXCEPT !.metadataWrites = @ + 1, !.setVersionCalls = @ + 1]
                 /\ UNCHANGED << currentVersion, frame, ret >>

\* s.CommitTx(ctx) and the return.  fault: the commit fails and commits nothing.
Commit ==
  /\ pc = "CommitTx"
  /\ \E fault \in BOOLEAN :
       LET S == IF fault THEN FailCommit(Store) ELSE CommitTx(Store)
       IN /\ db' = S.db
          /\ txOpen' = S.open
          /\ txdb' = S.txdb
          /\ pc' = "returned"
          /\ ret' = ReturnCommit(fault, frame.requiresRefetch)
          /\ frame' = IdleFrame
          /\ hist' = [hist EXCEPT !.commitFailed = fault]
          /\ UNCHANGED currentVersion

\* The process dies inside Upgrade: the server rolls the open transaction back.
Crash ==
  /\ pc \in Running
  /\ db' = db
  /\ txOpen' = FALSE
  /\ txdb' = db
  /\ pc' = "crashed"
  /\ frame' = IdleFrame
  /\ UNCHANGED << currentVersion, ret, hist >>

\* The names of the upgrade functions.
UpgradeFuncs ==
  {"validatorsEpochNull", "createDeposits", "createChainSpec", "createGenesis",
   "addProposerSlashingBlockRoots", "createETH1Deposits", "addAttestationAggregationIndices"}

\* An upgrade function or setVersion called outside Upgrade with a ctx that
\* carries no transaction.
CallWithoutTx ==
  /\ pc = "start"
  /\ \E name \in UpgradeFuncs \cup {"setVersion"} :
       LET r == IF name = "setVersion"
                  THEN setVersion(Store, currentVersion)
                  ELSE [err |-> upgradeFuncWithoutTx(name), store |-> Store]
       IN /\ db' = r.store.db
          /\ txOpen' = r.store.open
          /\ txdb' = r.store.txdb
          /\ hist' = [EmptyHist(db) EXCEPT
                        !.direct = [NoCall EXCEPT !.name = name, !.err = r.err]]
  /\ UNCHANGED << currentVersion, pc, frame, ret >>

\* columnExists called outside Upgrade with a ctx that carries no transaction:
\* it begins its own, queries in it and cancels it on return.  beginFault:
\* s.BeginTx fails; fault: tx.Query fails; scanError: as in columnExists.
columnExistsWithoutTx ==
  /\ pc = "start"
  /\ \E beginFault, fault, scanError \in BOOLEAN :
       LET t == columnExistsTx(Store, FALSE)
           found == HasColumn(t.view, "t_attestations", "f_aggregation_indices")
           S == IF beginFault \/ t.began = 0 THEN Store
                ELSE columnExistsReturn(BeginTx(Store))
           err == IF beginFault THEN "failed to begin transaction"
                  ELSE IF fault THEN "query failed"
                  ELSE IF ~found /\ scanError THEN "scan failed"
                  ELSE "nil"
       IN /\ beginFault => ~fault /\ ~scanError
          /\ (fault \/ found) => ~scanError
          /\ db' = S.db
          /\ txOpen' = S.open
          /\ txdb' = S.txdb
          /\ hist' = [EmptyHist(db) EXCEPT
                        !.direct = [name |-> "columnExists", err |-> err,
                                    began |-> IF beginFault THEN 0 ELSE t.began,
                                    found |-> (err = "nil" /\ found)]]
  /\ UNCHANGED << currentVersion, pc, frame, ret >>

\* Another build of the program is started on the same database: its
\* currentVersion is any version up to MaxVersion.
Redeploy ==
  /\ pc \in {"start", "returned", "crashed"}
  /\ \E v \in 1..MaxVersion :
       /\ v # currentVersion
       /\ currentVersion' = v
  /\ pc' = "start"
  /\ ret' = [requiresRefetch |-> FALSE, err |-> "nil"]
  /\ hist' = EmptyHist(db)
  /\ UNCHANGED << db, txOpen, txdb, frame >>

Init ==
  /\ currentVersion = 1
  /\ \E metadata \in {NoData, EmptyObject, Malformed},
        validators \in SeqUpTo(ValidatorRows, MaxValidators), n \in 0..MaxSlashings,
        manualColumn \in BOOLEAN :
       \* a metadata row written by hand or damaged is tried on the empty database
       /\ metadata # NoData => validators = <<>> /\ n = 0 /\ ~manualColumn
       /\ db = Version0DB(metadata, validators, n, manualColumn)
  /\ txOpen = FALSE
  /\ txdb = db
  /\ pc = "start"
  /\ frame = IdleFrame
  /\ ret = [requiresRefetch |-> FALSE, err |-> "nil"]
  /\ hist = EmptyHist(db)

Next ==
  \/ Upgrade
  \/ Exec
  \/ ProposerSlashingsForSlotRange
  \/ SetProposerSlashing
  \/ columnExists
  \/ SetVersion
  \/ Commit
  \/ Crash
  \/ CallWithoutTx
  \/ columnExistsWithoutTx
  \/ Redeploy

Spec == Init /\ [][Next]_vars

\* --------------------------------------------------------------- properties

\* The schema version a session reading the committed database obtains.
PersistedVersion(d) == version(d.metadata).version

Returned == pc = "returned"
Succeeded == pc = "returned" /\ ret.err = "nil"

\* What an upgrade function leaves in database d once it has returned nil.
Post(d, name) ==
  CASE name = "validatorsEpochNull" ->
         /\ \A c \in EpochColumns : <<"t_validators", c>> \notin d.notnull
         /\ \A k \in DOMAIN d.rows["t_validators"] :
              \A c \in EpochColumns : d.rows["t_validators"][k][c] # Val(-1)
    [] name = "createDeposits" -> "t_deposits" \in d.tables /\ "i_deposits_1" \in d.indexes
    [] name = "createChainSpec" -> "t_chain_spec" \in d.tables
    [] name = "createGenesis" -> "t_genesis" \in d.tables
    [] name = "addProposerSlashingBlockRoots" ->
         \A c \in {"f_block_1_root", "f_block_2_root"} :
           /\ HasColumn(d, "t_proposer_slashings", c)
           /\ <<"t_proposer_slashings", c>> \in d.notnull
    [] name = "createETH1Deposits" ->
         /\ "t_eth1_deposits" \in d.tables
         /\ {"i_eth1_deposits_1", "i_eth1_deposits_2", "i_eth1_deposits_3",
             "i_eth1_deposits_4", "i_eth1_deposits_5"} \subseteq d.indexes
    [] name = "addAttestationAggregationIndices" ->
         HasColumn(d, "t_attestations", "f_aggregation_indices")

\* C1: whenever Upgrade returns a nil error on a database whose version was at
\* most currentVersion, the committed schema metadata is the document of
\* currentVersion, and the version read back from it is currentVersion.
C1_SuccessPersistsTarget ==
  (Succeeded /\ hist.version <= currentVersion)
    => /\ db.metadata = Marshal(currentVersion)
       /\ PersistedVersion(db) = currentVersion

\* C1 witness: an Upgrade that ran upgrade functions from a lower version
\* returned nil and the committed version is currentVersion.
C1_Witness ==
  /\ Succeeded
  /\ hist.version < currentVersion
  /\ hist.finished >= 1
  /\ PersistedVersion(db) = currentVersion

\* C2: when an upgrade function fails, Upgrade returns with the committed
\* database exactly as it was when Upgrade was called: the version is the one
\* read at the start and nothing the earlier functions of the run did is there.
C2_StepFailureAtomic ==
  (Returned /\ hist.failed)
    => /\ ret.err = "failed to upgrade"
       /\ db = hist.pre
       /\ PersistedVersion(db) = hist.version

\* C2 witness: a run failed after at least one upgrade function had returned
\* nil and a later one had started.
C2_Witness ==
  /\ Returned
  /\ hist.failed
  /\ hist.finished >= 1
  /\ Len(hist.executed) > hist.finished
  /\ db = hist.pre

\* C3: from the call of Upgrade on (while it runs, after a crash, after it
\* returned) the committed version is the version read at the start or
\* currentVersion; the committed database differs from the one at the call
\* only after a nil return, and then it holds currentVersion together with
\* the effect of every upgrade function the run executed.
C3_PreOrTarget ==
  (pc # "start" /\ hist.read)
    => /\ PersistedVersion(db) \in {hist.version, currentVersion}
       /\ (db # hist.pre =>
             /\ Succeeded
             /\ PersistedVersion(db) = currentVersion
             /\ \A k \in 1..Len(hist.names) : Post(db, hist.names[k]))

\* C3 witness: the process crashed after setVersion wrote currentVersion in
\* the transaction and before the commit; the committed database is untouched.
C3_Witness ==
  /\ pc = "crashed"
  /\ hist.metadataWrites = 1
  /\ hist.finished >= 1
  /\ db = hist.pre
  /\ PersistedVersion(db) = hist.version

\* C4: an Upgrade called right after an Upgrade that returned nil (same
\* process, nothing else done in between) begins no transaction, executes no
\* upgrade function, leaves the committed database as it is and returns false;
\* its error is nil whenever its read of the schema metadata succeeds.
C4_SecondUpgradeNoOp ==
  (pc # "start" /\ hist.again)
    => /\ Returned
       /\ ret.requiresRefetch = FALSE
       /\ (hist.read => ret.err = "nil")
       /\ hist.began = 0
       /\ hist.executed = <<>>
       /\ hist.metadataWrites = 0
       /\ db = hist.pre

\* C4 witness: the second Upgrade returned (false, nil).
C4_Witness ==
  /\ Returned
  /\ hist.again
  /\ hist.read
  /\ ret = [requiresRefetch |-> FALSE, err |-> "nil"]

\* C5: when the version Upgrade reads equals currentVersion, Upgrade returns
\* (false, nil) having begun no transaction, executed no upgrade function and
\* written no metadata; the committed database is the one at the call.
C5_FastPath ==
  (pc # "start" /\ hist.read /\ hist.version = currentVersion)
    => /\ Returned
       /\ ret = [requiresRefetch |-> FALSE, err |-> "nil"]
       /\ hist.began = 0
       /\ ~txOpen
       /\ hist.executed = <<>>
       /\ hist.metadataWrites = 0
       /\ db = hist.pre

\* C5 witness: a build started on a database already at its currentVersion
\* (not a repeated call) took the fast path.
C5_Witness ==
  /\ Returned
  /\ hist.read
  /\ ~hist.again
  /\ hist.version = currentVersion
  /\ hist.began = 0

\* C6: when CommitTx fails, Upgrade returns a non-nil error with the
\* transaction cancelled, and the committed database, its version included,
\* is the one at the call.
C6_CommitFailureIsError ==
  (Returned /\ hist.commitFailed)
    => /\ ret.err # "nil"
       /\ ret.requiresRefetch = FALSE
       /\ ~txOpen
       /\ db = hist.pre
       /\ PersistedVersion(db) = hist.version

\* C6 witness: the commit failed after upgrade functions and setVersion had
\* succeeded.
C6_Witness ==
  /\ Returned
  /\ hist.commitFailed
  /\ hist.finished >= 1
  /\ hist.metadataWrites = 1

\* C7: on a nil return the requiresRefetch returned is the OR of the flags of
\* the registry entries applied in the run, and the entries applied are exactly
\* those whose functions the run executed.
C7_RefetchIsOrOfApplied ==
  Succeeded
    => /\ ret.requiresRefetch = (\E k \in hist.applied : upgrades[k].requiresRefetch)
       /\ hist.applied = {hist.executed[n][1] : n \in 1..Len(hist.executed)}

\* C7 witness: a run applied an entry with the flag and one without it and
\* returned true.
C7_Witness ==
  /\ Succeeded
  /\ ret.requiresRefetch
  /\ \E k \in hist.applied : upgrades[k].requiresRefetch
  /\ \E k \in hist.applied : ~upgrades[k].requiresRefetch

C9_Ordering ==
  /\ \A n \in 1..Len(hist.executed) :
       /\ hist.names[n] = upgrades[hist.executed[n][1]].funcs[hist.executed[n][2]]
       /\ (n = 1 => hist.executed[n][2] = 1)
       /\ (n > 1 =>
             \/ /\ hist.executed[n][1] = hist.executed[n - 1][1]
                /\ hist.executed[n][2] = hist.executed[n - 1][2] + 1
             \/ /\ hist.executed[n][1] > hist.executed[n - 1][1]
                /\ hist.executed[n][2] = 1
                /\ hist.executed[n - 1][2] = Len(upgrades[hist.executed[n - 1][1]].funcs))
  /\ Len(hist.executed) - hist.finished \in {0, 1}
  /\ (Len(hist.executed) > hist.finished => pc = "upgradeFunc" \/ hist.failed \/ pc = "crashed")
  /\ (hist.failed => pc = "returned")

\* C9 witness: one run executed the functions of two versions.
C9_Witness ==
  /\ Succeeded
  /\ \E m, n \in 1..Len(hist.executed) : hist.executed[m][1] < hist.executed[n][1]

\* C10: whenever Upgrade has returned, with a nil error or any other, no
\* transaction is open.
C10_NoOpenTransactionAfterReturn ==
  Returned => ~txOpen

\* C10 witness: Upgrade returned an error after it had begun its transaction.
C10_Witness ==
  /\ Returned
  /\ hist.began = 1
  /\ ret.err # "nil"
  /\ ~txOpen

\* C11 (the claim as stated): from the call of Upgrade on, the committed
\* schema version is never lower than the version the call read at its start.
C11_VersionNeverDecreases ==
  (pc # "start" /\ hist.read) => PersistedVersion(db) >= hist.version

\* The schema metadata is a document that is not JSON.
IsMalformed(data) == Len(data) > 0 /\ ~Unmarshal(data).ok

\* C12: when s.Metadata fails, the metadata is not JSON, or BeginTx fails,
\* Upgrade has returned (false, non-nil error) with no transaction open, no
\* upgrade function executed, no metadata written and the committed database,
\* its version record included, as it was at the call.
C12_FailureBeforeAnyStep ==
  (pc # "start" /\ (hist.metadataFault \/ IsMalformed(hist.pre.metadata) \/ hist.beginFault))
    => /\ Returned
       /\ ret.requiresRefetch = FALSE
       /\ ret.err \in {"failed to obtain version", "failed to begin upgrade transaction"}
       /\ (hist.beginFault <=> ret.err = "failed to begin upgrade transaction")
       /\ ~txOpen
       /\ hist.executed = <<>>
       /\ hist.metadataWrites = 0
       /\ db = hist.pre

\* C12 witness: Upgrade found a schema metadata document that is not JSON and
\* returned the error of reading the version.
C12_Witness ==
  /\ Returned
  /\ IsMalformed(hist.pre.metadata)
  /\ ~hist.metadataFault
  /\ ret = [requiresRefetch |-> FALSE, err |-> "failed to obtain version"]
  /\ db = hist.pre

\* Every upgrade function of every registry entry above the version read and up
\* to cur was invoked in the run of history h.
AllPendingInvoked(h, cur) ==
  \A k \in DOMAIN upgrades :
    (h.version < k /\ k <= cur) =>
      \A n \in 1..Len(upgrades[k].funcs) :
        \E e \in 1..Len(h.executed) : h.executed[e] = <<k, n>>

\* No upgrade function was invoked twice in the run of history h.
NoRepeat(h) ==
  \A a, b \in 1..Len(h.executed) : a # b => h.executed[a] # h.executed[b]

\* C13: in a run no upgrade function is invoked twice and none after the one
\* that failed; the call of Upgrade that follows a run failed at an upgrade
\* function reads the version that run read, finds the database that run found,
\* and once all its upgrade functions have succeeded every pending entry has
\* run; when it returns nil the persisted version is the target.
C13_RetryAfterFailure ==
  /\ NoRepeat(hist)
  /\ hist.failed => pc = "returned" /\ Len(hist.executed) = hist.finished + 1
  /\ (hist.afterFailure /\ hist.read) => hist.version = hist.prevVersion
  /\ (hist.afterFailure /\ hist.read /\ pc \in {"setVersion", "CommitTx"})
       => AllPendingInvoked(hist, currentVersion) /\ hist.finished = Len(hist.executed)
  /\ (hist.afterFailure /\ Succeeded)
       => /\ AllPendingInvoked(hist, currentVersion)
          /\ PersistedVersion(db) = currentVersion

\* C13 witness: the retry of a run that failed at an upgrade function returned
\* nil after running upgrade functions, the data rows still present.
C13_Witness ==
  /\ hist.afterFailure
  /\ Succeeded
  /\ hist.executed # <<>>
  /\ hist.pre.rows["t_proposer_slashings"] # <<>>
  /\ PersistedVersion(db) = currentVersion

\* Upgrade is about to issue the ALTER TABLE of addAttestationAggregationIndices.
AtAddAggregationIndices ==
  /\ pc = "upgradeFunc"
  /\ Current.op = "ADD COLUMN"
  /\ Current.column = "f_aggregation_indices"

\* The upgrade function that returned nil last in the running call is name.
LastReturned(name) ==
  /\ pc \in Running
  /\ hist.finished >= 1
  /\ hist.names[hist.finished] = name

\* C14 (the claim as stated): addAttestationAggregationIndices never fails on a
\* probe whose query succeeded, whether the column is there or not; it issues
\* the ALTER TABLE only where the column is absent, and once it has returned nil
\* the column is there.
C14_ProbeThenAlter ==
  /\ hist.probe # "scan failed"
  /\ AtAddAggregationIndices
       => /\ hist.probe = "not found"
          /\ ~HasColumn(txdb, "t_attestations", "f_aggregation_indices")
  /\ LastReturned("addAttestationAggregationIndices")
       => /\ hist.probe \in {"found", "not found"}
          /\ HasColumn(txdb, "t_attestations", "f_aggregation_indices")

\* C17: an upgrade function or setVersion called with a ctx that carries no
\* transaction returned ErrNoTransaction, and the database is as before the
\* call: nothing executed, nothing written, no transaction open.
C17_ErrNoTransaction ==
  hist.direct.name \in UpgradeFuncs \cup {"setVersion"}
    => /\ hist.direct.err = "ErrNoTransaction"
       /\ db = hist.pre
       /\ txdb = db
       /\ ~txOpen

\* C17 witness: addProposerSlashingBlockRoots was called with no transaction on
\* a database holding slashings and returned ErrNoTransaction.
C17_Witness ==
  /\ hist.direct.name = "addProposerSlashingBlockRoots"
  /\ hist.direct.err = "ErrNoTransaction"
  /\ db.rows["t_proposer_slashings"] # <<>>
  /\ db = hist.pre

\* C19: inside Upgrade columnExists begins no transaction (the only one begun
\* is Upgrade's) and its answer is what the transaction of Upgrade sees;
\* called with no transaction it began at most one of its own, none is open
\* after it returned, the database is untouched and a nil return tells whether
\* the committed database has the column.
C19_ColumnExistsTransaction ==
  /\ pc \in Running => hist.began = 1 /\ txOpen
  /\ (pc \in Running /\ hist.probe = "found")
       => HasColumn(txdb, "t_attestations", "f_aggregation_indices")
  /\ AtAddAggregationIndices
       => ~HasColumn(txdb, "t_attestations", "f_aggregation_indices")
  /\ hist.direct.name = "columnExists"
       => /\ ~txOpen
          /\ txdb = db
          /\ db = hist.pre
          /\ hist.direct.began = (IF hist.direct.err = "failed to begin transaction" THEN 0 ELSE 1)
          /\ hist.direct.err = "nil"
               => hist.direct.found = HasColumn(db, "t_attestations", "f_aggregation_indices")

\* C19 witness: inside Upgrade columnExists found the column that an earlier
\* upgrade function of the same transaction added and the committed database
\* lacks.
C19_Witness ==
  /\ pc \in Running
  /\ hist.probe = "found"
  /\ hist.began = 1
  /\ HasColumn(txdb, "t_attestations", "f_aggregation_indices")
  /\ ~HasColumn(db, "t_attestations", "f_aggregation_indices")

\* C15: setVersion is called at most once in a run and writes the metadata at
\* most once; it is called only when every upgrade function invoked has
\* returned nil and every pending entry has run; from the write to the commit
\* the new record is in the open transaction and not in the committed database;
\* the commit is attempted only after the write; a run that failed at an
\* upgrade function never called setVersion.
C15_MetadataWrittenOnceAtEnd ==
  /\ hist.setVersionCalls <= 1
  /\ hist.metadataWrites <= hist.setVersionCalls
  /\ (pc = "setVersion" \/ hist.setVersionCalls = 1)
       => /\ ~hist.failed
          /\ hist.finished = Len(hist.executed)
          /\ AllPendingInvoked(hist, currentVersion)
  /\ pc \in {"start", "upgradeFunc", "setVersion"} => hist.setVersionCalls = 0
  /\ pc = "CommitTx"
       => /\ hist.metadataWrites = 1
          /\ txOpen
          /\ txdb.metadata = Marshal(currentVersion)
          /\ db.metadata = hist.pre.metadata
  /\ hist.failed => hist.setVersionCalls = 0 /\ hist.metadataWrites = 0

\* C15 witness: all seven upgrade functions of entry 1 have returned nil, the
\* metadata is written in the transaction and the commit is still to come.
C15_Witness ==
  /\ pc = "CommitTx"
  /\ hist.metadataWrites = 1
  /\ Len(hist.executed) = 7
  /\ hist.finished = 7
  /\ txdb.metadata = Marshal(currentVersion)
  /\ db.metadata # txdb.metadata

\* Upgrade is inside the upgrade function name.
InFunc(name) == pc = "upgradeFunc" /\ upgradeFunc(upgrades[frame.i], frame.fn) = name

RootColumns == {"f_block_1_root", "f_block_2_root"}

\* Both block roots of a slashing row hold the hash tree roots of its headers.
RootsWritten(row) ==
  /\ RootColumns \subseteq DOMAIN row
  /\ row["f_block_1_root"] = HashTreeRoot(row["f_header_1"])
  /\ row["f_block_2_root"] = HashTreeRoot(row["f_header_2"])

\* No row of database d lacks a value in a column that is NOT NULL.
NotNullRespected(d) ==
  \A tc \in d.notnull :
    \A k \in DOMAIN d.rows[tc[1]] : d.rows[tc[1]][k][tc[2]] # Null

\* C16: in addProposerSlashingBlockRoots the two root columns exist and are
\* nullable from the second ALTER until the first SET NOT NULL; while the loop
\* runs the rows already processed hold both computed roots and the others
\* none; the loop is left with every row written, and only then NOT NULL is set;
\* a run that failed in the function leaves no root column NOT NULL; and neither
\* the transaction nor the committed database ever has a NOT NULL column with a
\* row lacking it.
C16_BackfillBeforeNotNull ==
  /\ NotNullRespected(db)
  /\ NotNullRespected(txdb)
  /\ InFunc("addProposerSlashingBlockRoots")
       => LET rows == txdb.rows["t_proposer_slashings"]
          IN /\ frame.stmt >= 3 => RootColumns \subseteq txdb.columns["t_proposer_slashings"]
             /\ frame.stmt <= 5
                  => \A c \in RootColumns : <<"t_proposer_slashings", c>> \notin txdb.notnull
             /\ frame.stmt = 3 => \A k \in DOMAIN rows : \A c \in RootColumns : rows[k][c] = Null
             /\ frame.stmt = 4
                  => /\ frame.row < Len(rows)
                     /\ \A k \in DOMAIN rows :
                          IF k <= frame.row THEN RootsWritten(rows[k])
                          ELSE \A c \in RootColumns : rows[k][c] = Null
             /\ frame.stmt >= 5 => \A k \in DOMAIN rows : RootsWritten(rows[k])
  /\ (hist.failed /\ hist.names[Len(hist.names)] = "addProposerSlashingBlockRoots")
       => \A c \in RootColumns :
            /\ <<"t_proposer_slashings", c>> \notin db.notnull
            /\ <<"t_proposer_slashings", c>> \notin txdb.notnull

\* C16 witness: two slashings were written back with their roots, the first
\* root column is NOT NULL and the second is about to be.
C16_Witness ==
  /\ InFunc("addProposerSlashingBlockRoots")
  /\ frame.stmt = 6
  /\ Len(txdb.rows["t_proposer_slashings"]) >= 2
  /\ \A k \in DOMAIN txdb.rows["t_proposer_slashings"] :
       RootsWritten(txdb.rows["t_proposer_slashings"][k])
  /\ <<"t_proposer_slashings", "f_block_1_root">> \in txdb.notnull

\* The value validatorsEpochNull leaves where it found v.
Normalised(v) == IF v = Val(-1) THEN Null ELSE v

\* The validators of database d are those of database pre with every sentinel
\* epoch replaced by NULL and every other epoch unchanged.
ValidatorsNormalised(d, pre) ==
  /\ DOMAIN d.rows["t_validators"] = DOMAIN pre.rows["t_validators"]
  /\ \A k \in DOMAIN d.rows["t_validators"] : \A c \in EpochColumns :
       d.rows["t_validators"][k][c] = Normalised(pre.rows["t_validators"][k][c])

\* C18: in validatorsEpochNull no row is updated before the four NOT NULL
\* constraints are dropped, and none of the four is in place while the UPDATEs
\* run; once the function has returned nil every sentinel epoch is NULL and
\* every other epoch is unchanged; after Upgrade from version 0 returned nil
\* that holds of the committed database, whose record reads 1 under
\* currentVersion = 1.
C18_ValidatorsEpochNull ==
  /\ InFunc("validatorsEpochNull")
       => /\ frame.stmt <= 5 => txdb.rows["t_validators"] = hist.pre.rows["t_validators"]
          /\ frame.stmt >= 5
               => \A c \in EpochColumns : <<"t_validators", c>> \notin txdb.notnull
  /\ (pc \in Running /\ \E e \in 1..hist.finished : hist.names[e] = "validatorsEpochNull")
       => /\ ValidatorsNormalised(txdb, hist.pre)
          /\ \A c \in EpochColumns : <<"t_validators", c>> \notin txdb.notnull
  /\ (Succeeded /\ hist.began = 1 /\ hist.version = 0)
       => /\ ValidatorsNormalised(db, hist.pre)
          /\ currentVersion = 1 => db.metadata = Marshal(1)

\* C18 witness: Upgrade from version 0 under currentVersion = 1 returned nil on
\* a database with an active validator: its activation epoch is kept, its exit
\* epoch is NULL, and the record reads 1.
C18_Witness ==
  /\ Succeeded
  /\ hist.version = 0
  /\ currentVersion = 1
  /\ db.metadata = Marshal(1)
  /\ \E k \in DOMAIN db.rows["t_validators"] :
       /\ hist.pre.rows["t_validators"][k] = ActiveValidator
       /\ db.rows["t_validators"][k]["f_activation_epoch"] = Val(4)
       /\ db.rows["t_validators"][k]["f_exit_epoch"] = Null
       /\ db.rows["t_validators"][k]["f_withdrawable_epoch"] = Null

\* A version above the one read and up to cur has no registry entry.
HasGap(h, cur) == \E k \in (h.version + 1)..cur : k \notin DOMAIN upgrades

C21_ErrorMeansNoRefetch ==
  (Returned /\ ret.err # "nil") => ret.requiresRefetch = FALSE

\* C21 witness: Upgrade failed at an upgrade function of a later entry after it
\* had applied entry 1, whose requiresRefetch is true, and returned false.
C21_Witness ==
  /\ Returned
  /\ ret.err = "failed to upgrade"
  /\ hist.failed
  /\ 1 \in hist.applied
  /\ upgrades[1].requiresRefetch
  /\ ret.requiresRefetch = FALSE

====
